---- MODULE Spec2Model ----
(***************************************************************************)
(* Model of mm_geo_test_logger.py: classify_error, get_location and the    *)
(* batch loop of run_bulk_geocode.                                         *)
(*                                                                         *)
(* Python values are tagged records.  A Python str is the sequence of its  *)
(* characters, so that `in`, split(":") and ", ".join are computed, not    *)
(* assumed.  The DateTime and Duration columns (wall clock) are not        *)
(* modelled; every other column of a report row is.                        *)
(***************************************************************************)
EXTENDS Integers, Sequences, FiniteSets, TLC

VARIABLES pc, table, df, pos, idx, address, adapter, result, error_msg, row,
          log_rows, invoked

vars == <<pc, table, df, pos, idx, address, adapter, result, error_msg, row,
          log_rows, invoked>>

\* Longest input table the model reads (rows of the address column).
MaxRows == 3

(***************************************************************************)
(* Python values                                                           *)
(***************************************************************************)
PyNone == [t |-> "None"]
NaN == [t |-> "nan"]
Str(s) == [t |-> "str", v |-> s]
Num(n) == [t |-> "num", v |-> n]
List(s) == [t |-> "list", v |-> s]
Dict(f) == [t |-> "dict", v |-> f]

\* bool(x): None, "", 0, [] and {} are false, everything else (NaN too) true.
Truthy(x) ==
    CASE x.t = "None" -> FALSE
      [] x.t = "str" -> Len(x.v) > 0
      [] x.t = "num" -> x.v # 0
      [] x.t = "list" -> Len(x.v) > 0
      [] x.t = "dict" -> DOMAIN x.v # {}
      [] OTHER -> TRUE

\* pd.isna on a scalar.
isna(x) == x.t \in {"None", "nan"}

\* d.get(k) of a dict value.
Get(d, k) == IF k \in DOMAIN d.v THEN d.v[k] ELSE PyNone

\* sub in s
Contains(s, sub) ==
    \E i \in 1..(Len(s) + 1) :
        /\ i + Len(sub) - 1 <= Len(s)
        /\ SubSeq(s, i, i + Len(sub) - 1) = sub

\* s.split(c)[0]: the text before the first c, the whole text without one.
SplitFirst(s, c) ==
    IF \E i \in 1..Len(s) : s[i] = c
    THEN LET first == CHOOSE i \in 1..Len(s) :
                          s[i] = c /\ \A j \in 1..(i - 1) : s[j] # c
         IN  SubSeq(s, 1, first - 1)
    ELSE s

RECURSIVE Join(_, _)
\* sep.join(parts)
Join(parts, sep) ==
    IF Len(parts) = 0 THEN <<>>
    ELSE IF Len(parts) = 1 THEN parts[1]
    ELSE parts[1] \o sep \o Join(Tail(parts), sep)

\* [k for k in keys if P(k)]
RECURSIVE Filter(_, _)
Filter(keys, keep) ==
    IF Len(keys) = 0 THEN <<>>
    ELSE (IF Head(keys) \in keep THEN <<Head(keys)>> ELSE <<>>)
         \o Filter(Tail(keys), keep)

DigitChar(d) == <<"0", "1", "2", "3", "4", "5", "6", "7", "8", "9">>[d + 1]

RECURSIVE Digits(_)
Digits(n) == IF n < 10 THEN <<DigitChar(n)>>
             ELSE Digits(n \div 10) \o <<DigitChar(n % 10)>>

RECURSIVE ZeroPad(_, _)
ZeroPad(s, width) == IF Len(s) >= width THEN s ELSE ZeroPad(<<"0">> \o s, width)

\* f"TC_{n:04}"
TestCaseId(n) == <<"T", "C", "_">> \o ZeroPad(Digits(n), 4)

(***************************************************************************)
(* String literals of the program                                          *)
(***************************************************************************)
EmptyInput == <<"E", "m", "p", "t", "y", " ", "i", "n", "p", "u", "t">>
NoResult == <<"N", "o", " ", "r", "e", "s", "u", "l", "t">>
Crash == <<"C", "r", "a", "s", "h">>
NoneReturned == <<"N", "o", "n", "e", " ", "r", "e", "t", "u", "r", "n", "e", "d">>
WrongFormat == <<"W", "r", "o", "n", "g", " ", "f", "o", "r", "m", "a", "t">>
MissingFieldsLabel == <<"M", "i", "s", "s", "i", "n", "g", " ", "f", "i", "e", "l", "d", "s">>
NoError == <<"N", "o", " ", "e", "r", "r", "o", "r">>
AllFieldsPresent == <<"A", "l", "l", " ", "f", "i", "e", "l", "d", "s", " ", "p", "r", "e", "s", "e", "n", "t">>
MissingPrefix == <<"M", "i", "s", "s", "i", "n", "g", ":", " ">>
InvalidOrEmpty == <<"I", "n", "v", "a", "l", "i", "d", " ", "o", "r", " ", "e", "m", "p", "t", "y", " ", "r", "e", "s", "u", "l", "t">>
NoneText == <<"N", "o", "n", "e">>
Pass == <<"S", "a", "n", "i", "t", "y", " ", "c", "h", "e", "c", "k", ":", " ", "P", "a", "s", "s">>
Fail == <<"F", "a", "i", "l">>
\* The label of line 124 after its warning sign and blank.
Partial == <<"P", "a", "r", "t", "i", "a", "l", " ", "-", " ", "N", "e", "e", "d", "s", " ", "R", "e", "v", "i", "e", "w">>
\* str(e) of the AttributeError that first.get raises when first is a str.
StrHasNoGet == <<"'", "s", "t", "r", "'", " ", "o", "b", "j", "e", "c", "t", " ", "h", "a", "s", " ", "n", "o", " ", "a", "t", "t", "r", "i", "b", "u", "t", "e", " ", "'", "g", "e", "t", "'">>

\* The names of the four fields, as the code writes them.
F_address == <<"a", "d", "d", "r", "e", "s", "s">>
F_lat == <<"l", "a", "t">>
F_log == <<"l", "o", "g">>
F_pcode == <<"p", "c", "o", "d", "e">>

(***************************************************************************)
(* classify_error                                                          *)
(***************************************************************************)
classify_error_no_crash_test(res, exception_msg) ==
    IF Truthy(exception_msg)
    THEN Str(SplitFirst(exception_msg.v, ":"))
    ELSE IF res = PyNone THEN Str(NoneReturned)
    ELSE IF res.t # "dict" THEN Str(WrongFormat)
    ELSE IF \E k \in {"address", "lat", "log", "pcode"} : Get(res, k) = PyNone
         THEN Str(MissingFieldsLabel)
    ELSE Str(NoError)

classify_error(res, exception_msg) ==
    IF Truthy(exception_msg)
    THEN IF Contains(exception_msg.v, <<"T", "r", "a", "c", "e", "b", "a", "c", "k">>)
            \/ Contains(exception_msg.v, <<"E", "r", "r", "o", "r">>)
         THEN Str(Crash)
         ELSE Str(SplitFirst(exception_msg.v, ":"))
    ELSE IF res = PyNone THEN Str(NoneReturned)
    ELSE IF res.t # "dict" THEN Str(WrongFormat)
    ELSE IF \E k \in {"address", "lat", "log", "pcode"} : Get(res, k) = PyNone
         THEN Str(MissingFieldsLabel)
    ELSE Str(NoError)

(***************************************************************************)
(* The geocode adapter (MMGeoCoder), an external collaborator: for one     *)
(* call it either returns a value or raises an Exception whose str() is    *)
(* msg.                                                                    *)
(***************************************************************************)
Returns(v) == [kind |-> "return", value |-> v, msg |-> <<>>]
Raises(m) == [kind |-> "raise", value |-> PyNone, msg |-> m]

Keys == {"address", "pcode", "latitude", "longitude"}
Vals == {PyNone, Str(<<>>), Str(<<"X">>), Num(0), Num(16)}

\* Every field mapping over a subset of the four keys.
Candidates == UNION {{Dict(f) : f \in [K -> Vals]} : K \in SUBSET Keys}

FullCandidate ==
    Dict([address |-> Str(<<"X">>), pcode |-> Str(<<"X">>),
          latitude |-> Num(16), longitude |-> Num(16)])
ZeroLatCandidate ==
    Dict([address |-> Str(<<"X">>), pcode |-> Str(<<"X">>),
          latitude |-> Num(0), longitude |-> Num(16)])

ConnErrTimeout == <<"C", "o", "n", "n", "e", "c", "t", "i", "o", "n", "E", "r", "r", "o", "r", ":", " ", "t", "i", "m", "e", "o", "u", "t">>
Messages == {<<>>, ConnErrTimeout, <<"H", "T", "T", "P", " ", "5", "0", "0", ":", " ", "s", "e", "r", "v", "e", "r">>, <<"T", "r", "a", "c", "e", "b", "a", "c", "k", " ", "(", "m", "o", "s", "t", " ", "r", "e", "c", "e", "n", "t", " ", "c", "a", "l", "l", " ", "l", "a", "s", "t", ")">>,
             <<"q", "u", "o", "t", "a", " ", "e", "x", "c", "e", "e", "d", "e", "d">>, <<"a", ":", "b", ":", "c">>}

\* Return values that hold no usable candidate.
Malformed == {Str(<<"a", "b", "c">>), FullCandidate, Num(16), List(<<Str(<<"a", "b", "c">>)>>),
              List(<<PyNone>>)}

AllBehaviours ==
    {Returns(PyNone), Returns(List(<<>>))}
    \cup {Returns(v) : v \in Malformed}
    \cup {Returns(List(<<c>>)) : c \in Candidates}
    \cup {Returns(List(<<ZeroLatCandidate, FullCandidate>>))}
    \cup {Raises(m) : m \in Messages}

\* The behaviours the batch runs draw from, one per address.
BatchBehaviours ==
    {Returns(PyNone), Returns(List(<<FullCandidate>>)),
     Returns(List(<<Str(<<"a", "b", "c">>)>>)), Raises(ConnErrTimeout), Raises(<<>>)}

(***************************************************************************)
(* get_location                                                            *)
(***************************************************************************)
Outcome(res, msg) == [raised |-> FALSE, exc |-> <<>>, result |-> res, error_msg |-> msg]
Raised(e) == [raised |-> TRUE, exc |-> e, result |-> PyNone, error_msg |-> PyNone]

\* str(e) of the AttributeError of x.get for an x that is no dict.
NoGetText(x) ==
    IF x.t = "str" THEN StrHasNoGet
    ELSE <<"'", "N", "o", "n", "e", "T", "y", "p", "e", "'", " ", "o", "b", "j", "e", "c", "t", " ", "h", "a", "s", " ", "n", "o", " ", "a", "t", "t", "r", "i", "b", "u", "t", "e", " ", "'", "g", "e", "t", "'">>

\* The adapter is called only past the empty-input test.
AdapterInvoked(addr) == ~(~Truthy(addr) \/ isna(addr))

\* The body of the try block: an Outcome, or the exception that leaves it.
try_body(addr, adp) ==
    IF ~Truthy(addr) \/ isna(addr)
    THEN Outcome(PyNone, Str(EmptyInput))
    ELSE IF adp.kind = "raise"
    THEN Raised(adp.msg)
    ELSE LET res == adp.value
         IN  IF ~Truthy(res) \/ res.t # "list" \/ Len(res.v) = 0
             THEN Outcome(PyNone, Str(NoResult))
             ELSE LET first == res.v[1]
                  IN  IF first.t # "dict"
                      THEN Raised(NoGetText(first))
                      ELSE Outcome(Dict([address |-> Get(first, "address"),
                                         pcode |-> Get(first, "pcode"),
                                         lat |-> Get(first, "latitude"),
                                         log |-> Get(first, "longitude")]),
                                   PyNone)

\* get_location without its except clause.
get_location_no_except(addr, adp) == try_body(addr, adp)

\* get_location reporting an absent result with no description.
get_location_no_description(addr, adp) ==
    LET r == try_body(addr, adp)
    IN  IF r.raised THEN Outcome(PyNone, Str(r.exc))
        ELSE IF r.result = PyNone THEN Outcome(PyNone, PyNone)
        ELSE r

get_location(addr, adp) ==
    LET r == try_body(addr, adp)
    IN  IF r.raised THEN Outcome(PyNone, Str(r.exc)) ELSE r

(***************************************************************************)
(* The row of one address (run_bulk_geocode, the loop body)                *)
(***************************************************************************)
KeyText(k) ==
    CASE k = "address" -> F_address
      [] k = "lat" -> F_lat
      [] k = "log" -> F_log
      [] k = "pcode" -> F_pcode

Texts(keys) == [i \in 1..Len(keys) |-> KeyText(keys[i])]

\* result.get(k) if result else None
Field(res, k) == IF Truthy(res) THEN Get(res, k) ELSE PyNone

\* all([lat, log, pcode, returned_address])
AllFields(res) ==
    \A k \in {"lat", "log", "pcode", "address"} : Truthy(Field(res, k))

\* missing_fields: the fields that are None.
missing_fields(res) ==
    Filter(<<"address", "lat", "log", "pcode">>,
           {k \in {"address", "lat", "log", "pcode"} :
               res = PyNone \/ Get(res, k) = PyNone})

\* missing: the fields that are falsy.
missing(res) ==
    Filter(<<"lat", "log", "pcode", "address">>,
           {k \in {"address", "lat", "log", "pcode"} : ~Truthy(Get(res, k))})

is_format_ok(res) ==
    IF Truthy(res) /\ AllFields(res) THEN Str(AllFieldsPresent)
    ELSE IF Truthy(res)
    THEN Str(MissingPrefix \o Join(Texts(missing(res)), <<",", " ">>))
    ELSE Str(InvalidOrEmpty)

test_outcome(res, msg) ==
    IF Truthy(res) /\ AllFields(res) /\ ~Truthy(msg) THEN Str(Pass)
    ELSE IF Truthy(msg) THEN Str(Fail)
    ELSE Str(Partial)

BuildRow(i, addr, res, msg) ==
    [test_case_id |-> Str(TestCaseId(i + 1)),
     input_address |-> addr,
     returned_address |-> Field(res, "address"),
     lat |-> Field(res, "lat"),
     log |-> Field(res, "log"),
     pcode |-> Field(res, "pcode"),
     is_format_ok |-> is_format_ok(res),
     missing_fields |-> Str(IF Len(missing_fields(res)) > 0
                            THEN Join(Texts(missing_fields(res)), <<",", " ">>)
                            ELSE NoneText),
     error_type |-> classify_error(res, msg),
     exception |-> msg,
     test_outcome |-> test_outcome(res, msg),
     notes |-> Str(<<>>)]

NoRow == [test_case_id |-> PyNone]

(***************************************************************************)
(* The input table                                                         *)
(***************************************************************************)
\* The address cells of the input file: empty, blank, or text.
Cells == {<<>>, <<" ">>, <<"A">>, <<"B">>}
Tables == UNION {[1..n -> Cells] : n \in 0..MaxRows}

\* pd.read_csv / pd.read_excel: an empty cell is read as NaN, the rows
\* are labelled 0, 1, ... in file order.
read_table(t) ==
    [i \in 1..Len(t) |->
        [index |-> i - 1, address |-> IF t[i] = <<>> THEN NaN ELSE Str(t[i])]]

RECURSIVE SelectRows(_, _, _)
\* The rows of frame at the positions in keep, in order.
SelectRows(frame, keep, i) ==
    IF i > Len(frame) THEN <<>>
    ELSE (IF i \in keep THEN <<frame[i]>> ELSE <<>>)
         \o SelectRows(frame, keep, i + 1)

dropna(frame) ==
    SelectRows(frame, {i \in 1..Len(frame) : ~isna(frame[i].address)}, 1)

drop_duplicates(frame) ==
    SelectRows(frame,
               {i \in 1..Len(frame) :
                   \A j \in 1..(i - 1) : frame[j].address # frame[i].address},
               1)

\* df.dropna(subset=['address']).drop_duplicates(subset=['address'])
clean(frame) == drop_duplicates(dropna(frame))

(***************************************************************************)
(* run_bulk_geocode                                                        *)
(***************************************************************************)
\* os.path.splitext(input_path)[1], and the endings of output_path.
InputExts == {"", ".csv", ".CSV", ".xlsx", ".xls", ".txt"}
OutputExts == {".xlsx", ".csv", ".txt"}

\* str.lower on the extensions above.
lower(ext) == IF ext = ".CSV" THEN ".csv" ELSE ext

Init ==
    /\ pc = "start"
    /\ table = <<>>
    /\ df = <<>>
    /\ pos = 0
    /\ idx = 0
    /\ address = PyNone
    /\ adapter = Returns(PyNone)
    /\ result = PyNone
    /\ error_msg = PyNone
    /\ row = NoRow
    /\ log_rows = <<>>
    /\ invoked = <<>>

\* The checks of the input path, the read and the cleaning of the table.
Start ==
    /\ pc = "start"
    /\ \E exists \in BOOLEAN, ext \in InputExts, t \in Tables :
          LET file_ext == lower(ext)
          IN  IF ~exists
              THEN pc' = "not_found" /\ UNCHANGED <<table, df>>
              ELSE IF file_ext = ""
              THEN pc' = "error_no_ext" /\ UNCHANGED <<table, df>>
              ELSE IF file_ext \in {".csv", ".xlsx", ".xls"}
              THEN /\ table' = t
                   /\ df' = clean(read_table(t))
                   /\ pc' = "loop"
              ELSE pc' = "error_unsupported" /\ UNCHANGED <<table, df>>
    /\ UNCHANGED <<pos, idx, address, adapter, result, error_msg, row,
                   log_rows, invoked>>

\* The head of one iteration of the loop, up to the call of get_location;
\* the adapter's behaviour at this address is the environment's choice.
NextAddress ==
    /\ pc = "loop"
    /\ pos < Len(df)
    /\ pos' = pos + 1
    /\ idx' = df[pos + 1].index
    /\ address' = df[pos + 1].address
    /\ \E b \in BatchBehaviours : adapter' = b
    /\ pc' = "resolving"
    /\ UNCHANGED <<table, df, result, error_msg, row, log_rows, invoked>>

\* get_location and the labels derived from its outcome.  An exception
\* that left get_location would leave the loop and the run.
Resolve ==
    /\ pc = "resolving"
    /\ \E out \in {get_location(address, adapter)} :
          IF out.raised
          THEN /\ pc' = "aborted"
               /\ UNCHANGED <<result, error_msg, row>>
          ELSE /\ result' = out.result
               /\ error_msg' = out.error_msg
               /\ \E r \in {BuildRow(idx, address, out.result, out.error_msg)} :
                     row' = r
               /\ pc' = "classified"
    /\ invoked' = IF AdapterInvoked(address) THEN Append(invoked, address)
                  ELSE invoked
    /\ UNCHANGED <<table, df, pos, idx, address, adapter, log_rows>>

\* log_rows.append(...)
Record ==
    /\ pc = "classified"
    /\ log_rows' = Append(log_rows, row)
    /\ pc' = "loop"
    /\ UNCHANGED <<table, df, pos, idx, address, adapter, result, error_msg,
                   row, invoked>>

\* After the loop: the report is written, or its format refused.
Finish ==
    /\ pc = "loop"
    /\ pos = Len(df)
    /\ \E out_ext \in OutputExts :
          pc' = IF out_ext \in {".xlsx", ".csv"} THEN "written"
                ELSE "unsupported_output"
    /\ UNCHANGED <<table, df, pos, idx, address, adapter, result, error_msg,
                   row, log_rows, invoked>>

Next == Start \/ NextAddress \/ Resolve \/ Record \/ Finish

Spec == Init /\ [][Next]_vars

\* The program is one sequential thread that runs to its end: a step that
\* can be taken is taken.
FairSpec == Init /\ [][Next]_vars /\ WF_vars(Next)

(***************************************************************************)
(* One address through get_location and the row building, for every        *)
(* address and every behaviour of the adapter.                             *)
(***************************************************************************)
RowAddresses == {PyNone, NaN, Str(<<>>), Str(<<" ">>), Str(<<"A">>)}

RowInit ==
    /\ pc = "resolving"
    /\ table = <<>>
    /\ df = <<>>
    /\ pos = 0
    /\ idx = 0
    /\ address \in RowAddresses
    /\ adapter \in AllBehaviours
    /\ result = PyNone
    /\ error_msg = PyNone
    /\ row = NoRow
    /\ log_rows = <<>>
    /\ invoked = <<>>

RowNext == Resolve \/ Record

RowSpec == RowInit /\ [][RowNext]_vars

(***************************************************************************)
(* Properties                                                              *)
(***************************************************************************)
\* A row has been built for the address at hand.
Classified == pc \in {"classified", "loop"} /\ row # NoRow

\* C1: the k-th report row has Test Case ID "TC_" followed by k padded with
\* zeros to four digits, whatever rows were dropped before it.
C1_ConsecutiveIds ==
    \A k \in 1..Len(log_rows) : log_rows[k].test_case_id = Str(TestCaseId(k))

\* C2 (as stated): an adapter failure described "ConnectionError: timeout"
\* is labelled "ConnectionError", the text before the first colon.
C2_LabelIsPrefix ==
    (Classified /\ AdapterInvoked(address) /\ adapter = Raises(ConnErrTimeout))
        => row.error_type = Str(<<"C", "o", "n", "n", "e", "c", "t", "i", "o", "n", "E", "r", "r", "o", "r">>)

\* C2 (amended): an adapter failure described "ConnectionError: timeout" is
\* recorded with that description and labelled "Crash", because the
\* description contains "Error".
C2_LabelIsCrash ==
    (Classified /\ AdapterInvoked(address) /\ adapter = Raises(ConnErrTimeout))
        => /\ row.exception = Str(ConnErrTimeout)
           /\ row.error_type = Str(Crash)

C2_Witness ==
    /\ Classified
    /\ address = Str(<<"A">>)
    /\ adapter = Raises(ConnErrTimeout)
    /\ row.error_type = Str(Crash)

\* C3 (as stated): when the adapter returns [] or None for a non-empty
\* address, the error label of the row is "None returned".
C3_LabelIsNoneReturned ==
    (Classified /\ AdapterInvoked(address)
        /\ adapter \in {Returns(PyNone), Returns(List(<<>>))})
        => row.error_type = Str(NoneReturned)

\* C3 (amended): when the adapter returns [] or None for a non-empty
\* address, the outcome carries the description "No result" and the error
\* label of the row is "No result".
C3_LabelIsNoResult ==
    (Classified /\ AdapterInvoked(address)
        /\ adapter \in {Returns(PyNone), Returns(List(<<>>))})
        => /\ row.exception = Str(NoResult)
           /\ row.error_type = Str(NoResult)

C3_Witness ==
    /\ Classified
    /\ address = Str(<<"A">>)
    /\ adapter = Returns(List(<<>>))
    /\ row.error_type = Str(NoResult)

RECURSIVE Trim(_)
\* s without its leading and trailing blanks.
Trim(s) ==
    IF Len(s) = 0 THEN s
    ELSE IF Head(s) = " " THEN Trim(Tail(s))
    ELSE IF s[Len(s)] = " " THEN Trim(SubSeq(s, 1, Len(s) - 1))
    ELSE s

RECURSIVE FirstOccurrences(_, _)
\* The cells of t that are non-empty after trimming, each once, in the
\* order of their first occurrence.
FirstOccurrences(t, seen) ==
    IF Len(t) = 0 THEN <<>>
    ELSE IF Trim(Head(t)) = <<>> \/ Head(t) \in seen
    THEN FirstOccurrences(Tail(t), seen)
    ELSE <<Head(t)>> \o FirstOccurrences(Tail(t), seen \cup {Head(t)})

\* C4: the report has exactly one row per distinct address that is
\* non-empty after trimming, in first-occurrence order; missing, empty and
\* blank addresses give no row.
C4_OneRowPerAddress ==
    pc = "written"
        => [k \in 1..Len(log_rows) |-> log_rows[k].input_address]
           = [k \in 1..Len(FirstOccurrences(table, {})) |->
                 Str(FirstOccurrences(table, {})[k])]

\* C5: every outcome of get_location holds exactly one of a candidate and a
\* failure description, presence being what the callers test (if result,
\* if exception_msg, not error_msg).
C5_ExactlyOne ==
    Classified => (Truthy(result) # Truthy(error_msg))

\* A return value that holds no usable candidate.
NoUsableCandidate(v) ==
    \/ v = PyNone
    \/ v.t # "list"
    \/ (v.t = "list" /\ (Len(v.v) = 0 \/ v.v[1].t # "dict"))

\* C6: for a non-empty address, a return value with no usable candidate
\* (empty, absent or malformed) gives the absence marker described
\* "No result".
C6_MalformedIsNoResult ==
    (Classified /\ AdapterInvoked(address) /\ adapter.kind = "return"
        /\ NoUsableCandidate(adapter.value))
        => /\ result = PyNone
           /\ error_msg = Str(NoResult)

\* C7: Pass exactly when a complete candidate exists and no failure
\* description is present, Fail whenever one is, and Partial only for an
\* incomplete candidate without a failure: never for a row with no
\* candidate.
C7_OutcomeLabels ==
    Classified =>
        /\ (row.test_outcome = Str(Pass))
            <=> (result # PyNone /\ AllFields(result) /\ ~Truthy(error_msg))
        /\ Truthy(error_msg) => row.test_outcome = Str(Fail)
        /\ (row.test_outcome = Str(Partial))
            => (result # PyNone /\ ~AllFields(result) /\ ~Truthy(error_msg))

\* C8: a run that ends without writing a report has invoked the adapter
\* for no address and built no row.
C8_AbortBeforeRows ==
    pc \in {"not_found", "error_no_ext", "error_unsupported",
            "unsupported_output"}
        => (invoked = <<>> /\ log_rows = <<>>)

\* The state of the k-th retained address, as a rank.
Rank(k) ==
    IF k <= Len(log_rows) THEN 3
    ELSE IF k = pos /\ pc = "classified" THEN 2
    ELSE IF k = pos /\ pc = "resolving" THEN 1
    ELSE 0

Done == pc \in {"written", "unsupported_output"}

\* C9: every retained address moves Pending, Resolving, Classified,
\* Recorded one state at a time and never back, address k+1 starting only
\* after the row of address k is appended; rows once appended stay as they
\* are; and whatever the adapter does, a run that has read its table ends
\* with one row per retained address, in order.
C9_SequentialContained ==
    /\ [][/\ \A k \in 1..Len(df) : Rank(k)' \in {Rank(k), Rank(k) + 1}
          /\ \A k \in 1..(Len(df') - 1) : Rank(k + 1)' > 0 => Rank(k)' = 3
          /\ Len(log_rows') >= Len(log_rows)
          /\ SubSeq(log_rows', 1, Len(log_rows)) = log_rows]_vars
    /\ (pc = "loop")
          ~> (/\ Done
              /\ Len(log_rows) = Len(df)
              /\ \A k \in 1..Len(df) :
                    log_rows[k].input_address = df[k].address)

\* A finished run whose first address failed in the adapter and whose
\* second address is recorded after it.
C9_Witness ==
    /\ Done
    /\ Len(log_rows) = 2
    /\ log_rows[1].exception = Str(ConnErrTimeout)
    /\ log_rows[2].test_outcome = Str(Pass)

\* C10: for an outcome with a candidate and no failure description, the
\* row says "All fields present" iff its Missing Fields is "None" iff its
\* error type is "No error", and otherwise the fields after "Missing:" are
\* those of Missing Fields.
C10_ColumnsAgree ==
    (Classified /\ result # PyNone /\ ~Truthy(error_msg)) =>
        /\ (row.is_format_ok = Str(AllFieldsPresent))
            <=> (row.missing_fields = Str(NoneText))
        /\ (row.missing_fields = Str(NoneText))
            <=> (row.error_type = Str(NoError))
        /\ row.is_format_ok # Str(AllFieldsPresent)
            => {missing(result)[i] : i \in 1..Len(missing(result))}
               = {missing_fields(result)[i] :
                     i \in 1..Len(missing_fields(result))}
====
